---------------------------- MODULE Spec2Model ----------------------------
(***************************************************************************)
(* scripts/update_confluence.py: the publisher that lists the pages of a   *)
(* Confluence space, fetches each page and prepends a status block to      *)
(* every page whose stored body does not yet contain the marker text.      *)
(*                                                                         *)
(* One step of the model is one HTTP request of the script together with   *)
(* the local code that runs up to the next request.  The remote service    *)
(* (listing with `next` links, page GET, PUT with a version check) is the  *)
(* environment; it is written down from the REST contract the script       *)
(* relies on.                                                              *)
(*                                                                         *)
(* Page bodies are strings over a four letter alphabet:                    *)
(*   0 = "\n", 1 and 2 = the two halves of the marker text, 3 = any other  *)
(* markup.  The marker is the two letter string <<1, 2>>, so that `in` is  *)
(* a real substring search and not a membership test.                      *)
(***************************************************************************)
EXTENDS Integers, Sequences, FiniteSets, TLC

\* ------------------------------------------------------------------ bounds
MaxPages == 3      \* pages in the space
MaxRuns  == 2      \* sequential runs of main by one process
MaxEdits == 1      \* writes by the external editor
ConcPages == 1     \* pages in the space when two processes run concurrently

\* ------------------------------------------------------- program constants
Limit == 100       \* params["limit"] of the first listing request

\* The text main looks for: "Ingestion &amp; Cleansing Lambda v2.0".
Marker == <<1, 2>>

\* The separator main puts between the status block and the old body: "\n\n".
Separator == <<0, 0>>

\* A status block whose heading spells the marker text with a plain "&"
\* instead of "&amp;": the marker is not a substring of it.
status_section_unescaped == <<0, 3, 1, 3, 2, 3, 0>>

\* create_lambda_status_section(): a constant block of markup; it starts and
\* ends with a newline and holds the marker text in its heading.
create_lambda_status_section == <<0, 3>> \o Marker \o <<3, 0>>

VersionMessage == "Updated with latest Lambda implementation status"

\* The publisher processes: A is the script; B is a second, concurrent run.
Procs == {"A", "B"}

\* --------------------------------------------------------------- the state
VARIABLES
    server,      \* remote: page id -> [title, body, version]
    pageSize,    \* remote: the most results the service puts in one response
    edits,       \* remote: writes made so far by the external editor
    pc,          \* per process: where main is
    url,         \* per process: get_all_pages_in_space's url (the start offset)
    all_pages,   \* per process: get_all_pages_in_space's accumulator
    pages,       \* per process: main's pages
    idx,         \* per process: position of main's for loop in pages
    full_page,   \* per process: main's full_page
    runs,        \* per process: runs of main started so far
    log,         \* history, per process: the requests of the current run
    server0,     \* history, per process: the remote pages when the run began
    prevClean    \* history, per process: the run before this one ended with
                 \* every one of its requests answered with success

vars == <<server, pageSize, edits, pc, url, all_pages, pages, idx, full_page,
          runs, log, server0, prevClean>>

\* ------------------------------------------------------------ pure helpers
Min(a, b) == IF a < b THEN a ELSE b

\* Python's `m in s` on strings: m occurs in s as a contiguous substring.
Contains(s, m) ==
    \E k \in 0..(Len(s) - Len(m)) : SubSeq(s, k + 1, k + Len(m)) = m

TitleOf(id) == <<"T", id>>

NoPage == [title |-> <<>>, body |-> <<>>, version |-> 0]

\* get_page_content's {} on failure.
Absent == [id |-> 0, title |-> <<>>, version |-> [number |-> 0],
           body |-> [storage |-> [value |-> <<>>]]]

\* ------------------------------------------------------ the remote service
\* GET /content?spaceKey=..&limit=..: the results from offset `start` on, at
\* most `limit` of them and at most pageSize, and a `next` link exactly when
\* more results follow.  next is the offset the link names; 0 stands for "no
\* next link" (a link never points back at offset 0).
ServerList(srv, start, limit) ==
    LET n    == Cardinality(DOMAIN srv)
        size == Min(limit, pageSize)
        last == Min(start + size, n)
    IN  [results |-> [k \in 1..(last - start) |->
                         [id |-> start + k, title |-> srv[start + k].title]],
         next    |-> IF last < n THEN last ELSE 0]

\* GET /content/{id}?expand=body.storage,version,space
ServerGet(srv, id) ==
    [id      |-> id,
     title   |-> srv[id].title,
     version |-> [number |-> srv[id].version],
     body    |-> [storage |-> [value |-> srv[id].body]]]

\* PUT /content/{id}: accepted only when the payload's version number is the
\* page's current version plus one; an accepted write replaces the whole page.
ServerAccepts(page, payload) == payload.version.number = page.version + 1

ServerPut(page, payload) ==
    IF ServerAccepts(page, payload)
    THEN [title   |-> payload.title,
          body    |-> payload.body.storage.value,
          version |-> payload.version.number]
    ELSE page

\* -------------------------------------------------------------- the script
\* A listing loop that never follows a next link.
HasNextNever(data) == FALSE

\* get_all_pages_in_space, line 49: is there a next link in the response?
HasNext(data) == data.next # 0

\* An except branch that returns what was accumulated so far.
ListingOnErrorKeepsPages(acc) == acc

\* get_all_pages_in_space, lines 56-58: what the function returns when a
\* request raised.
ListingOnError(acc) == <<>>

\* A guard that looks for the marker only at the start of the body.
HasMarkerAtStart(current_content) ==
    /\ Len(current_content) >= Len(Marker)
    /\ SubSeq(current_content, 1, Len(Marker)) = Marker

\* A guard that looks for the marker text spelled with a plain "&".
HasUnescapedMarker(current_content) == Contains(current_content, <<1, 3, 2>>)

\* main, line 292: the idempotence guard.
HasMarker(current_content) == Contains(current_content, Marker)

\* A composition that appends the status block.
UpdatedContentAppended(lambda_status_content, current_content) ==
    current_content \o Separator \o lambda_status_content

\* main, line 297.
UpdatedContent(lambda_status_content, current_content) ==
    lambda_status_content \o Separator \o current_content

\* A payload that sends the fetched version number as it is.
UpdatePayloadSameVersion(title, content, version) ==
    [version |-> [number |-> version, message |-> VersionMessage],
     title   |-> title,
     type    |-> "page",
     body    |-> [storage |-> [value |-> content,
                               representation |-> "storage"]]]

\* update_page, lines 79-92.
UpdatePayload(title, content, version) ==
    [version |-> [number |-> version + 1, message |-> VersionMessage],
     title   |-> title,
     type    |-> "page",
     body    |-> [storage |-> [value |-> content,
                               representation |-> "storage"]]]

\* An update_page that lets the exception of a failed request out.
UpdatePageResultRaises(ok) == [ret |-> ok, raised |-> ~ok]

\* update_page, lines 94-103: what the call does with the outcome of the
\* request: it returns True or False and never lets the exception out.
UpdatePageResult(ok) == [ret |-> ok, raised |-> FALSE]

\* main, line 278: the for loop's next position after position i of n (0
\* stands for leaving the loop).
LoopNext(i, n) == IF i < n THEN i + 1 ELSE 0

\* A loop that returns from main on an absent page.
AfterAbsentReturns(i, n) == 0

\* main, lines 285-286: the position of the loop after `continue` on an
\* absent page.
AfterAbsent(i, n) == LoopNext(i, n)

\* main, lines 292-294: the position of the loop after `continue` on a page
\* that already holds the marker.
AfterSkip(i, n) == LoopNext(i, n)

\* A loop that goes through the same page again when its write failed.
AfterUpdateRetries(i, n, success) == IF success THEN LoopNext(i, n) ELSE i

\* main, lines 300-303: the position of the loop after update_page returned;
\* success only decides what is printed.
AfterUpdate(i, n, success) == LoopNext(i, n)

\* One entry of the request history.
Entry(method, id, number, value, status, before, after, resp) ==
    [method |-> method, id |-> id, number |-> number, value |-> value,
     status |-> status, before |-> before, after |-> after, resp |-> resp]

\* The bodies pages start with (a body holding only the first half of the
\* marker text, and one holding the marker after other text), the version the
\* first page starts with (page i starts i - 1 versions later, so that no two
\* pages share a version), and what the external editor may store: the old
\* body with the marker text quoted at its end, or a rewrite without it.
InitBodies   == {<<1>>, <<3, 1, 2>>}
InitVersions == {1, 2}
EditBodies(cur) == {cur \o Marker, <<3>>}

PosOf(i) == IF i = 0 THEN "done" ELSE "fetch"

Append1(r, e) == [log EXCEPT ![r] = Append(@, e)]

Clean(l) == \A k \in 1..Len(l) : l[k].status = "ok"

\* ------------------------------------------------------------------- Init
Init ==
    /\ \E n \in 0..MaxPages :
         \E b \in [1..n -> InitBodies], v \in InitVersions :
            server = [i \in 1..n |->
                        [title   |-> TitleOf(i),
                         body    |-> b[i],
                         version |-> v + i - 1]]
    /\ pageSize \in 1..MaxPages
    /\ edits = 0
    /\ pc = [r \in Procs |-> "idle"]
    /\ url = [r \in Procs |-> 0]
    /\ all_pages = [r \in Procs |-> <<>>]
    /\ pages = [r \in Procs |-> <<>>]
    /\ idx = [r \in Procs |-> 0]
    /\ full_page = [r \in Procs |-> Absent]
    /\ runs = [r \in Procs |-> 0]
    /\ log = [r \in Procs |-> <<>>]
    /\ server0 = [r \in Procs |-> server]
    /\ prevClean = [r \in Procs |-> FALSE]

\* ---------------------------------------------------------------- actions
\* The script is started: main, line 259, up to the first listing request
\* (get_all_pages_in_space, lines 31-38).
Start(r, max) ==
    /\ pc[r] \in {"idle", "done", "aborted"}
    /\ runs[r] < max
    /\ pc' = [pc EXCEPT ![r] = "list"]
    /\ url' = [url EXCEPT ![r] = 0]
    /\ all_pages' = [all_pages EXCEPT ![r] = <<>>]
    /\ pages' = [pages EXCEPT ![r] = <<>>]
    /\ idx' = [idx EXCEPT ![r] = 0]
    /\ full_page' = [full_page EXCEPT ![r] = Absent]
    /\ runs' = [runs EXCEPT ![r] = @ + 1]
    /\ prevClean' = [prevClean EXCEPT ![r] =
                        runs[r] > 0 /\ pc[r] = "done" /\ Clean(log[r])]
    /\ log' = [log EXCEPT ![r] = <<>>]
    /\ server0' = [server0 EXCEPT ![r] = server]
    /\ UNCHANGED <<server, pageSize, edits>>

\* main, lines 259-278: get_all_pages_in_space returned `result`.
MainAfterListing(r, result) ==
    /\ pages' = [pages EXCEPT ![r] = result]
    /\ idx' = [idx EXCEPT ![r] = IF result = <<>> THEN 0 ELSE 1]
    /\ pc' = [pc EXCEPT ![r] = IF result = <<>> THEN "done" ELSE "fetch"]

\* get_all_pages_in_space, lines 42-55: one request of the loop answered.
ListResponse(r) ==
    /\ pc[r] = "list"
    /\ LET data == ServerList(server, url[r], Limit)
           acc  == all_pages[r] \o data.results
       IN  /\ all_pages' = [all_pages EXCEPT ![r] = acc]
           /\ log' = Append1(r, Entry("GET", 0, url[r], <<>>, "ok",
                                      NoPage, NoPage, data))
           /\ IF HasNext(data)
              THEN /\ url' = [url EXCEPT ![r] = data.next]
                   /\ UNCHANGED <<pages, idx, pc>>
              ELSE /\ MainAfterListing(r, acc)
                   /\ UNCHANGED url
    /\ UNCHANGED <<server, pageSize, edits, full_page, runs, server0, prevClean>>

\* get_all_pages_in_space, lines 42-43 and 56-58: the request raised.
ListError(r) ==
    /\ pc[r] = "list"
    /\ log' = Append1(r, Entry("GET", 0, url[r], <<>>, "error",
                               NoPage, NoPage, NoPage))
    /\ MainAfterListing(r, ListingOnError(all_pages[r]))
    /\ UNCHANGED <<server, pageSize, edits, url, all_pages, full_page, runs,
                   server0, prevClean>>

\* main, lines 283-297: get_page_content returned fp for the page at idx.
MainAfterFetch(r, fp) ==
    LET n == Len(pages[r])
        i == idx[r]
        next == IF fp = Absent THEN AfterAbsent(i, n)
                ELSE IF HasMarker(fp.body.storage.value) THEN AfterSkip(i, n)
                ELSE i
        put == fp # Absent /\ ~HasMarker(fp.body.storage.value)
    IN  /\ full_page' = [full_page EXCEPT ![r] = fp]
        /\ idx' = [idx EXCEPT ![r] = next]
        /\ pc' = [pc EXCEPT ![r] = IF put THEN "put" ELSE PosOf(next)]

\* get_page_content, lines 67-70: the request answered.
FetchResponse(r) ==
    /\ pc[r] = "fetch"
    /\ LET page_id == pages[r][idx[r]].id
           fp == ServerGet(server, page_id)
       IN  /\ log' = Append1(r, Entry("GET", page_id, 0, <<>>, "ok",
                                      server[page_id], server[page_id], fp))
           /\ MainAfterFetch(r, fp)
    /\ UNCHANGED <<server, pageSize, edits, url, all_pages, pages, runs,
                   server0, prevClean>>

\* get_page_content, lines 71-73: the request raised.
FetchError(r) ==
    /\ pc[r] = "fetch"
    /\ LET page_id == pages[r][idx[r]].id
       IN  log' = Append1(r, Entry("GET", page_id, 0, <<>>, "error",
                                   server[page_id], server[page_id], Absent))
    /\ MainAfterFetch(r, Absent)
    /\ UNCHANGED <<server, pageSize, edits, url, all_pages, pages, runs,
                   server0, prevClean>>

\* main, lines 288-300: the payload of the write for the page at idx.
PutPayload(r) ==
    LET current_version == full_page[r].version.number
        current_content == full_page[r].body.storage.value
        updated_content == UpdatedContent(create_lambda_status_section,
                                          current_content)
    IN  UpdatePayload(pages[r][idx[r]].title, updated_content, current_version)

\* main, lines 300-303: update_page's request ended; ok says whether it
\* ended without an exception.
MainAfterUpdate(r, ok) ==
    LET res  == UpdatePageResult(ok)
        next == AfterUpdate(idx[r], Len(pages[r]), res.ret)
    IN  IF res.raised
        THEN /\ pc' = [pc EXCEPT ![r] = "aborted"]
             /\ idx' = [idx EXCEPT ![r] = 0]
        ELSE /\ pc' = [pc EXCEPT ![r] = PosOf(next)]
             /\ idx' = [idx EXCEPT ![r] = next]

\* update_page, lines 95-98 and 99-103: the service answered the PUT, with
\* success or with a version conflict.
PutResponse(r) ==
    /\ pc[r] = "put"
    /\ LET page_id == pages[r][idx[r]].id
           payload == PutPayload(r)
           before  == server[page_id]
           ok      == ServerAccepts(before, payload)
           after   == ServerPut(before, payload)
       IN  /\ server' = [server EXCEPT ![page_id] = after]
           /\ log' = Append1(r, Entry("PUT", page_id, payload.version.number,
                                      payload.body.storage.value,
                                      IF ok THEN "ok" ELSE "conflict",
                                      before, after, NoPage))
           /\ MainAfterUpdate(r, ok)
    /\ UNCHANGED <<pageSize, edits, url, all_pages, pages, full_page, runs,
                   server0, prevClean>>

\* update_page, lines 99-103: the PUT failed before the service acted on it
\* (no connection, an HTTP error that is not about the version).
PutError(r) ==
    /\ pc[r] = "put"
    /\ LET page_id == pages[r][idx[r]].id
           payload == PutPayload(r)
       IN  log' = Append1(r, Entry("PUT", page_id, payload.version.number,
                                   payload.body.storage.value, "error",
                                   server[page_id], server[page_id], NoPage))
    /\ MainAfterUpdate(r, FALSE)
    /\ UNCHANGED <<server, pageSize, edits, url, all_pages, pages, full_page,
                   runs, server0, prevClean>>

\* update_page, lines 99-103: the service acted on the PUT and the answer
\* never arrived; the script sees an exception.
PutLost(r) ==
    /\ pc[r] = "put"
    /\ LET page_id == pages[r][idx[r]].id
           payload == PutPayload(r)
           before  == server[page_id]
           after   == ServerPut(before, payload)
       IN  /\ server' = [server EXCEPT ![page_id] = after]
           /\ log' = Append1(r, Entry("PUT", page_id, payload.version.number,
                                      payload.body.storage.value, "lost",
                                      before, after, NoPage))
    /\ MainAfterUpdate(r, FALSE)
    /\ UNCHANGED <<pageSize, edits, url, all_pages, pages, full_page, runs,
                   server0, prevClean>>

\* Another client of the service stores a new version of page p.
ExternalEdit(p) ==
    /\ edits < MaxEdits
    /\ p \in DOMAIN server
    /\ \E b \in EditBodies(server[p].body) :
          server' = [server EXCEPT ![p] =
                        [title |-> @.title, body |-> b, version |-> @.version + 1]]
    /\ edits' = edits + 1
    /\ UNCHANGED <<pageSize, pc, url, all_pages, pages, idx, full_page, runs,
                   log, server0, prevClean>>

\* --------------------------------------------------------- specifications
\* One process runs the script, MaxRuns times in a row; nothing else writes.
Next ==
    \/ Start("A", MaxRuns)
    \/ ListResponse("A")
    \/ ListError("A")
    \/ FetchResponse("A")
    \/ FetchError("A")
    \/ PutResponse("A")
    \/ PutError("A")
    \/ PutLost("A")

Spec == Init /\ [][Next]_vars

\* get_all_pages_in_space alone: one call, from its first request to its
\* return.  Every request ends: the transport answers or raises.
NextListing ==
    \/ Start("A", 1)
    \/ ListResponse("A")
    \/ ListError("A")

SpecListing == Init /\ [][NextListing]_vars /\ WF_vars(NextListing)

\* Two processes run the script once each, concurrently, on a space of at
\* most ConcPages pages listed in one response, while an external editor
\* writes too.  Requests that fail without reaching the service only shorten
\* a run (Spec has them); here every request reaches the service, and the
\* answer to a PUT may still be lost.
NextConc ==
    \/ \E r \in Procs :
          \/ Start(r, 1)
          \/ ListResponse(r)
          \/ FetchResponse(r)
          \/ PutResponse(r)
          \/ PutLost(r)
    \/ \E p \in 1..ConcPages : ExternalEdit(p)

InitConc ==
    /\ Init
    /\ Cardinality(DOMAIN server) \in 1..ConcPages
    /\ pageSize = ConcPages

SpecConc == InitConc /\ [][NextConc]_vars

\* ------------------------------------------------------- reading the history
\* The positions in r's history of the PUT requests, and of the page GET
\* requests, for page p.
Puts(r, p) ==
    {k \in 1..Len(log[r]) : log[r][k].method = "PUT" /\ log[r][k].id = p}

Fetches(r, p) ==
    {k \in 1..Len(log[r]) : log[r][k].method = "GET" /\ log[r][k].id = p}

\* The positions of the listing requests.
Listings(r) ==
    {k \in 1..Len(log[r]) : log[r][k].method = "GET" /\ log[r][k].id = 0}

ListFailed(r) == \E k \in Listings(r) : log[r][k].status = "error"

\* The ids of main's pages.
Listed(r) == {pages[r][k].id : k \in 1..Len(pages[r])}

\* The body a successful page GET at position k of the history returned.
FetchedBody(r, k) == log[r][k].resp.body.storage.value

\* The fetch of page p in r's run answered, with a body that holds
\* (respectively lacks) the marker text.
FetchedWithMarker(r, p) ==
    \E k \in Fetches(r, p) :
        log[r][k].status = "ok" /\ Contains(FetchedBody(r, k), Marker)

FetchedWithoutMarker(r, p) ==
    \E k \in Fetches(r, p) :
        log[r][k].status = "ok" /\ ~Contains(FetchedBody(r, k), Marker)

FetchFailed(r, p) == \E k \in Fetches(r, p) : log[r][k].status = "error"

PutSucceeded(r, p) == \E k \in Puts(r, p) : log[r][k].status = "ok"

PutFailed(r, p) == \E k \in Puts(r, p) : log[r][k].status # "ok"

\* The status block with its separator, as it stands in front of a body the
\* script has written.
Banner == <<0, 3, 1, 2, 3, 0, 0, 0>>

StartsWith(s, prefix) ==
    Len(s) >= Len(prefix) /\ SubSeq(s, 1, Len(prefix)) = prefix

\* ------------------------------------------------------------------ claims
\* C1: for every listed page whose body, as this run's fetch returned it,
\* contains the marker text, the run issues no PUT for the page, and the
\* page's body and version on the service are what they were when the run
\* began.
C1_MarkedPageUntouched ==
    \A p \in Listed("A") :
        FetchedWithMarker("A", p) =>
            /\ Puts("A", p) = {}
            /\ server[p] = server0["A"][p]

\* C1's case: a finished run that fetched a page holding the marker and
\* wrote another page.
C1_Witness ==
    /\ pc["A"] = "done"
    /\ \E p, q \in Listed("A") :
          FetchedWithMarker("A", p) /\ PutSucceeded("A", q)

\* C2: for every listed page whose fetched body lacks the marker and whose
\* fetch and write both succeed, the page's body on the service is status
\* block + "\n\n" + the body before the run, and its version is the version
\* before the run plus one.
C2_PrependedOnce ==
    \A p \in Listed("A") :
        (FetchedWithoutMarker("A", p) /\ PutSucceeded("A", p)) =>
            /\ server[p].body =
                  <<0, 3, 1, 2, 3, 0>> \o <<0, 0>> \o server0["A"][p].body
            /\ server[p].version = server0["A"][p].version + 1

\* C2's case: a finished run whose write for a page of version 2 succeeded.
C2_Witness ==
    /\ pc["A"] = "done"
    /\ \E p \in Listed("A") :
          /\ FetchedWithoutMarker("A", p)
          /\ PutSucceeded("A", p)
          /\ server0["A"][p].version = 2

RECURSIVE ConcatResults(_)
ConcatResults(l) ==
    IF l = <<>> THEN <<>>
    ELSE (IF l[1].method = "GET" /\ l[1].id = 0 /\ l[1].status = "ok"
          THEN l[1].resp.results ELSE <<>>) \o ConcatResults(Tail(l))

\* get_all_pages_in_space has returned to main (in the first run).
ListingReturned(r) == runs[r] = 1 /\ pc[r] \in {"fetch", "done"}

\* The pages of the space, as the service lists them.
SpaceSummaries ==
    [k \in 1..Cardinality(DOMAIN server) |->
        [id |-> k, title |-> server[k].title]]

\* C4: get_all_pages_in_space returns, and when no request failed it returns
\* the results of all the responses of the chain of next links, in order:
\* every page of the space once, none left out; every response but the last
\* had a next link and the last had none.
C4_ListingComplete ==
    /\ [](  (ListingReturned("A") /\ ~ListFailed("A")) =>
              /\ pages["A"] = ConcatResults(log["A"])
              /\ pages["A"] = SpaceSummaries
              /\ \A i, j \in 1..Len(pages["A"]) :
                    pages["A"][i].id = pages["A"][j].id => i = j
              /\ \A k \in 1..Len(log["A"]) :
                    (log["A"][k].resp.next # 0) <=> (k < Len(log["A"])))
    /\ (pc["A"] = "list") ~> (pc["A"] # "list")

\* C4's case: the listing took three responses and returned three pages.
C4_Witness ==
    /\ ListingReturned("A")
    /\ ~ListFailed("A")
    /\ Len(log["A"]) = 3
    /\ Len(pages["A"]) = 3

\* C5: once a listing request of the run has failed, main's pages are empty,
\* the run has ended, its history holds listing requests only (no fetch, no
\* PUT), and the pages on the service are what they were when the run began.
C5_ListingFailureIsNoOp ==
    ListFailed("A") =>
        /\ pages["A"] = <<>>
        /\ pc["A"] = "done"
        /\ \A k \in 1..Len(log["A"]) :
              log["A"][k].method = "GET" /\ log["A"][k].id = 0
        /\ server = server0["A"]

\* C5's case: a continuation request failed after two responses had brought
\* results, in a space with a page that lacks the marker.
C5_Witness ==
    /\ Len(log["A"]) = 3
    /\ log["A"][3].status = "error"
    /\ log["A"][1].resp.results # <<>>
    /\ \E p \in DOMAIN server : ~Contains(server[p].body, Marker)

\* C6: at the end of a run whose listing succeeded, a page whose fetch failed
\* has no PUT and is unchanged, and every other listed page was fetched and,
\* when its fetched body lacks the marker, has its PUT.
C6_FetchFailureSkipsOnlyThatPage ==
    (pc["A"] = "done" /\ ~ListFailed("A")) =>
        \A p \in Listed("A") :
            FetchFailed("A", p) =>
                /\ Puts("A", p) = {}
                /\ server[p] = server0["A"][p]
                /\ \A q \in Listed("A") \ {p} :
                      /\ Fetches("A", q) # {}
                      /\ FetchedWithoutMarker("A", q) => Puts("A", q) # {}

\* C6's case: of three pages the second could not be fetched; the first and
\* the third were written.
C6_Witness ==
    /\ pc["A"] = "done"
    /\ Len(pages["A"]) = 3
    /\ FetchFailed("A", 2)
    /\ PutSucceeded("A", 1)
    /\ PutSucceeded("A", 3)

\* C7: no run is aborted by an exception; at the end of a run, for a page
\* whose PUT failed, every page listed after it was fetched (and has its PUT
\* when its fetched body lacks the marker), and every page listed before it
\* whose PUT succeeded still holds what that PUT stored.
C7_WriteFailureDoesNotAbort ==
    /\ pc["A"] # "aborted"
    /\ pc["A"] = "done" =>
          \A i \in 1..Len(pages["A"]) :
              PutFailed("A", pages["A"][i].id) =>
                  /\ \A j \in (i + 1)..Len(pages["A"]) :
                        LET q == pages["A"][j].id
                        IN  /\ Fetches("A", q) # {}
                            /\ FetchedWithoutMarker("A", q) => Puts("A", q) # {}
                  /\ \A j \in 1..(i - 1) :
                        LET q == pages["A"][j].id
                        IN  \A k \in Puts("A", q) :
                              log["A"][k].status = "ok" =>
                                  /\ server[q] = log["A"][k].after
                                  /\ server[q] # server0["A"][q]

\* C7's case: of three pages the write of the second failed; the first and
\* the third were written.
C7_Witness ==
    /\ pc["A"] = "done"
    /\ Len(pages["A"]) = 3
    /\ PutFailed("A", 2)
    /\ PutSucceeded("A", 1)
    /\ PutSucceeded("A", 3)

\* C9: in one run there is at most one PUT for each page id, whatever the
\* outcomes; every request of the run is a GET of the listing, a GET of a
\* page of the space or a PUT to a page of the space; and the page ids on the
\* service are those of the beginning of the run.
C9_OnePassNoRetry ==
    /\ \A p \in DOMAIN server : Cardinality(Puts("A", p)) <= 1
    /\ \A k \in 1..Len(log["A"]) :
          /\ log["A"][k].method \in {"GET", "PUT"}
          /\ log["A"][k].id \in {0} \cup DOMAIN server0["A"]
          /\ log["A"][k].method = "PUT" => log["A"][k].id # 0
    /\ DOMAIN server = DOMAIN server0["A"]

\* C9's case: a finished run in which a write failed and a fetch failed.
C9_Witness ==
    /\ pc["A"] = "done"
    /\ \E p, q \in Listed("A") :
          /\ PutFailed("A", p)
          /\ FetchFailed("A", q)

\* The positions of all the PUT requests in r's history.
AllPuts(r) == {k \in 1..Len(log[r]) : log[r][k].method = "PUT"}

\* The service changed the page on the PUT at position k of r's history.
Applied(r, k) == log[r][k].after # log[r][k].before

\* C8: every PUT of a run follows directly the run's own successful fetch of
\* the same page and carries that fetch's version number plus one; the
\* service applies it only when the fetched version is the page's version at
\* the moment of the PUT; a PUT whose fetch is stale by then is not answered
\* with success and leaves the page as it found it.
C8_VersionFromOwnFetch ==
    \A r \in Procs :
        \A k \in AllPuts(r) :
            /\ k > 1
            /\ log[r][k - 1].method = "GET"
            /\ log[r][k - 1].id = log[r][k].id
            /\ log[r][k - 1].status = "ok"
            /\ LET fetched == log[r][k - 1].resp.version.number
                   current == log[r][k].before.version
               IN  /\ log[r][k].number = fetched + 1
                   /\ Applied(r, k) => fetched = current
                   /\ log[r][k].status = "ok" => fetched = current
                   /\ fetched # current =>
                         /\ log[r][k].status # "ok"
                         /\ log[r][k].after = log[r][k].before

\* C8's case: the external editor stored a new version between A's fetch
\* and A's PUT, and the PUT was rejected; B never ran.
C8_Witness ==
    /\ runs["B"] = 0
    /\ edits = 1
    /\ \E k \in AllPuts("A") :
          /\ log["A"][k].status = "conflict"
          /\ log["A"][k].before.version = log["A"][k - 1].resp.version.number + 1
          /\ log["A"][k].before.body # log["A"][k - 1].resp.body.storage.value
          /\ server[log["A"][k].id] = log["A"][k].before

\* C10: whatever the interleaving with the other process and the external
\* editor, the service never applies a PUT of the script to a page whose
\* body holds the marker at that moment, and no page body ever starts with
\* the banner twice.
C10_NeverPrependedTwice ==
    /\ \A r \in Procs :
          \A k \in AllPuts(r) :
              Applied(r, k) => ~Contains(log[r][k].before.body, Marker)
    /\ \A p \in DOMAIN server : ~StartsWith(server[p].body, Banner \o Banner)

\* C10's case: A and B both fetched the page without the marker; B's PUT
\* was applied first, and A's PUT then met a body with the marker and was
\* rejected.
C10_Witness ==
    \E k \in AllPuts("A"), j \in AllPuts("B") :
        /\ log["A"][k].id = log["B"][j].id
        /\ log["B"][j].status = "ok"
        /\ log["A"][k].status = "conflict"
        /\ log["A"][k].before = log["B"][j].after
        /\ Contains(log["A"][k].before.body, Marker)
        /\ ~Contains(log["A"][k].value, Banner \o Banner)

=============================================================================
